---- MODULE Spec2Model ----
(***************************************************************************)
(* OU Results Extractor: the client component (student-results.tsx) that   *)
(* drives a range fetch, and the /api/results route handler (route.ts)     *)
(* that submits the form to the origin and scrapes the returned page.      *)
(*                                                                         *)
(* Strings are sequences: roll numbers are sequences of one-character      *)
(* strings, URLs and messages are sequences of segments chosen so that no  *)
(* needle the code searches for ("www.", "https://", "fetch failed",       *)
(* "network", "Credits", a label) straddles two segments.  Numbers the     *)
(* code holds as JS numbers (up to 10^12, exact in a double) are canonical *)
(* decimal digit sequences, since they do not fit a 32-bit integer.        *)
(***************************************************************************)
EXTENDS Integers, Sequences, FiniteSets, TLC

VARIABLES
    startRollNo, endRollNo, url,    \* useState inputs (student-results.tsx:41-43)
    results, loading, error,        \* useState outputs (student-results.tsx:44-46)
    pc,                             \* position of the running fetchResults closure
    run,                            \* the closure's locals: start, end, rollNo, urls, idx
    sent,                           \* history: requests of this session to /api/results
    resultRolls,                    \* history: rollNo under which each record was appended
    apiReq,                         \* requests to /api/results in flight (not yet received)
    call,                           \* the route handler's invocation, or NoCall
    apiResp,                        \* responses of the route not yet consumed
    env,                            \* process.env["NODE_TLS_REJECT_UNAUTHORIZED"]
    input, output                   \* arguments and return value of a function called alone

vars == <<startRollNo, endRollNo, url, results, loading, error, pc, run,
          sent, resultRolls, apiReq, call, apiResp, env, input, output>>

clientVars == <<startRollNo, endRollNo, url, results, loading, error, pc, run,
                sent, resultRolls>>

routeVars == <<call, env>>

unitVars == <<input, output>>

-----------------------------------------------------------------------------
(* Bounds of the model.                                                    *)

\* The user starts only ranges of at most MaxRange roll numbers.
MaxRange == 2

\* A name cell's text has at most MaxNameLen segments.
MaxNameLen == 4

\* A marks table or a result table has at most MaxRows rows.
MaxRows == 5

\* The result list given to an export has at most MaxResults records.
MaxResults == 3

-----------------------------------------------------------------------------
(* Strings.                                                                *)

RECURSIVE Rep(_, _)
\* n copies of the character c
Rep(c, n) == IF n = 0 THEN <<>> ELSE <<c>> \o Rep(c, n - 1)

\* String.prototype.includes for a needle that is one segment
Includes(s, needle) == \E i \in 1..Len(s) : s[i] = needle

\* index of the first occurrence of the segment, 0 when there is none
FirstIndex(s, needle) ==
    IF Includes(s, needle)
    THEN CHOOSE i \in 1..Len(s) :
             /\ s[i] = needle
             /\ \A j \in 1..(i - 1) : s[j] # needle
    ELSE 0

\* String.prototype.replace with a string pattern: the first occurrence only
ReplaceFirst(s, needle, repl) ==
    LET i == FirstIndex(s, needle)
    IN  IF i = 0 THEN s
        ELSE SubSeq(s, 1, i - 1) \o repl \o SubSeq(s, i + 1, Len(s))

RECURSIVE RemoveAll(_, _)
\* String.prototype.replace with a /g pattern and an empty replacement
RemoveAll(s, needle) ==
    IF s = <<>> THEN <<>>
    ELSE IF Head(s) = needle THEN RemoveAll(Tail(s), needle)
    ELSE <<Head(s)>> \o RemoveAll(Tail(s), needle)

Whitespace == {" "}

RECURSIVE TrimStart(_)
TrimStart(s) ==
    IF s # <<>> /\ Head(s) \in Whitespace THEN TrimStart(Tail(s)) ELSE s

RECURSIVE TrimEnd(_)
TrimEnd(s) ==
    IF s # <<>> /\ s[Len(s)] \in Whitespace
    THEN TrimEnd(SubSeq(s, 1, Len(s) - 1)) ELSE s

\* String.prototype.trim
Trim(s) == TrimEnd(TrimStart(s))

\* String.prototype.endsWith
EndsWith(s, suffix) ==
    /\ Len(suffix) <= Len(s)
    /\ SubSeq(s, Len(s) - Len(suffix) + 1, Len(s)) = suffix

-----------------------------------------------------------------------------
(* Roll numbers and the numbers parsed from them.                          *)

Digits == <<"0", "1", "2", "3", "4", "5", "6", "7", "8", "9">>

DigitSet == {Digits[i] : i \in 1..10}

\* the value of a digit character
DigitVal(c) == (CHOOSE i \in 1..10 : Digits[i] = c) - 1

RollLen == 12

\* /^\d{12}$/.test(rollNo)
validateRollNo(rollNo) ==
    /\ Len(rollNo) = RollLen
    /\ \A i \in 1..Len(rollNo) : rollNo[i] \in DigitSet

RECURSIVE StripZeros(_)
StripZeros(d) ==
    IF Len(d) > 1 /\ Head(d) = "0" THEN StripZeros(Tail(d)) ELSE d

RECURSIVE DigitPrefix(_)
\* the longest prefix of s made of digits
DigitPrefix(s) ==
    IF s # <<>> /\ Head(s) \in DigitSet
    THEN <<Head(s)>> \o DigitPrefix(Tail(s)) ELSE <<>>

NaN == <<"NaN">>

\* parseInt(s): the number read from the leading digits, as a canonical
\* digit sequence (no leading zero; zero is <<"0">>); NaN when there are none
ParseInt(s) ==
    LET d == DigitPrefix(s)
    IN  IF d = <<>> THEN NaN ELSE StripZeros(d)

RECURSIVE Inc(_)
\* n + 1 on a canonical digit sequence (rollNo++)
Inc(n) ==
    IF n = <<>> THEN <<"1">>
    ELSE IF n[Len(n)] = "9"
         THEN Inc(SubSeq(n, 1, Len(n) - 1)) \o <<"0">>
         ELSE SubSeq(n, 1, Len(n) - 1) \o <<Digits[DigitVal(n[Len(n)]) + 2]>>

RECURSIVE LexLeq(_, _)
LexLeq(a, b) ==
    IF a = <<>> THEN TRUE
    ELSE IF DigitVal(Head(a)) < DigitVal(Head(b)) THEN TRUE
    ELSE IF DigitVal(Head(a)) > DigitVal(Head(b)) THEN FALSE
    ELSE LexLeq(Tail(a), Tail(b))

\* a <= b on canonical digit sequences; any comparison with NaN is false
Leq(a, b) ==
    /\ a # NaN
    /\ b # NaN
    /\ \/ Len(a) < Len(b)
       \/ Len(a) = Len(b) /\ LexLeq(a, b)

RECURSIVE IncN(_, _)
IncN(n, k) == IF k = 0 THEN n ELSE IncN(Inc(n), k - 1)

\* Number.prototype.toString of a non-negative integer
NumToString(n) == n

\* String.prototype.padStart(len, "0")
PadStart(s, len) ==
    IF Len(s) >= len THEN s ELSE Rep("0", len - Len(s)) \o s

-----------------------------------------------------------------------------
(* URLs.  A URL string is a sequence of segments.                          *)

Https == "https://"
Http == "http://"
Www == "www."

Schemes == {Https, Http}

\* new URL(u) succeeds: for strings built of the segments used here, exactly
\* when the string begins with a scheme and something follows it
IsValidUrl(u) == Len(u) >= 2 /\ u[1] \in Schemes

\* normalizeUrl(inputUrl)
normalizeUrl(inputUrl) ==
    IF Includes(inputUrl, Www)
    THEN inputUrl
    ELSE ReplaceFirst(inputUrl, Https, <<Https, Www>>)

\* the second element of urls in fetchResultWithFallback
FallbackUrl(inputUrl) ==
    IF Includes(inputUrl, Www)
    THEN ReplaceFirst(inputUrl, Www, <<>>)
    ELSE ReplaceFirst(inputUrl, Https, <<Https, Www>>)

CandidateUrls_Three(inputUrl) == <<inputUrl, FallbackUrl(inputUrl), inputUrl>>

\* const urls = [inputUrl, <toggled>]
CandidateUrls(inputUrl) == <<inputUrl, FallbackUrl(inputUrl)>>

-----------------------------------------------------------------------------
(* The origin's page, as far as the route's queries read it.  A table is   *)
(* <<>> when the document has no element of that id and <<rows>> when it   *)
(* has; rows is a sequence of rows, a row a sequence of cell texts.        *)

MinHtmlLen == 100

\* where the phrase "Is Not Found" stands in the document
PhrasePlaces == {"none", "font", "plain"}

Page(len, phrase, t3, t4, t5) ==
    [len |-> len, phrase |-> phrase, t3 |-> t3, t4 |-> t4, t5 |-> t5]

\* $('font:contains("Is Not Found")').text(): non-empty exactly when a font
\* element holds the phrase
notFoundText(html) ==
    IF html.phrase = "font" THEN <<"Is Not Found">> ELSE <<>>

RECURSIVE Concat(_)
Concat(texts) ==
    IF texts = <<>> THEN <<>> ELSE Head(texts) \o Concat(Tail(texts))

RECURSIVE RowMatches(_, _, _)
\* the texts of the next siblings of the cells of one row, from position i on,
\* whose text contains the label
RowMatches(row, label, i) ==
    IF i > Len(row) THEN <<>>
    ELSE (IF Includes(row[i], label) /\ i < Len(row)
          THEN <<row[i + 1]>> ELSE <<>>)
         \o RowMatches(row, label, i + 1)

RECURSIVE TableMatches(_, _)
TableMatches(rows, label) ==
    IF rows = <<>> THEN <<>>
    ELSE RowMatches(Head(rows), label, 1) \o TableMatches(Tail(rows), label)

\* table.find('td:contains(label)').next().find('font').text().trim()
FieldText(rows, label) == Trim(Concat(TableMatches(rows, label)))

Credits == "Credits"

\* the two steps in the other order: the suffix first, then the token
cleanName_SuffixFirst(fullName, fatherName) ==
    LET stripped ==
            IF fatherName # <<>> /\ EndsWith(Trim(fullName), fatherName)
            THEN Trim(SubSeq(Trim(fullName), 1,
                             Len(Trim(fullName)) - Len(fatherName)))
            ELSE Trim(fullName)
    IN  Trim(RemoveAll(stripped, Credits))

\* cleanName(fullName, fatherName)
cleanName(fullName, fatherName) ==
    LET cleanedName == Trim(RemoveAll(fullName, Credits))
    IN  IF fatherName # <<>> /\ EndsWith(cleanedName, fatherName)
        THEN Trim(SubSeq(cleanedName, 1, Len(cleanedName) - Len(fatherName)))
        ELSE cleanedName

\* route.ts:125-150
ExtractPersonalDetails(rows) ==
    LET fatherName == FieldText(rows, "Father")
        rawName == FieldText(rows, "Name")
    IN  [hallTicketNo |-> FieldText(rows, "Hall Ticket No."),
         name |-> cleanName(rawName, fatherName),
         fatherName |-> fatherName,
         gender |-> FieldText(rows, "Gender"),
         course |-> FieldText(rows, "Course")]

MarkCells == 5

HeaderRows == 2

RECURSIVE MarksFrom(_, _)
\* route.ts:156-169: the rows at index > 1 that have exactly five cells
MarksFrom(rows, i) ==
    IF i > Len(rows) THEN <<>>
    ELSE (IF i - 1 >= HeaderRows /\ Len(rows[i]) = MarkCells
          THEN <<[subCode |-> Trim(rows[i][1]),
                  subjectName |-> Trim(rows[i][2]),
                  credits |-> Trim(rows[i][3]),
                  gradePoints |-> Trim(rows[i][4]),
                  gradeSecurity |-> Trim(rows[i][5])]>>
          ELSE <<>>)
         \o MarksFrom(rows, i + 1)

\* only the first row taken for a header row
ExtractMarks_OneHeader(rows) ==
    IF rows = <<>> THEN <<>>
    ELSE MarksFrom(<<rows[1]>> \o rows, 1)

ExtractMarks(rows) == MarksFrom(rows, 1)

\* row.find('td').eq(k).text().trim(), k counted from 0
CellText(row, k) == IF k + 1 <= Len(row) THEN Trim(row[k + 1]) ELSE <<>>

\* the first such row instead of the last
LastValidRow_First(rows) ==
    LET valid == {i \in 1..Len(rows) : CellText(rows[i], 0) # <<>>}
    IN  IF valid = {} THEN 0
        ELSE CHOOSE i \in valid : \A j \in valid : i <= j

\* route.ts:177-184: the index of the last row whose first cell is not blank,
\* 0 when there is none
LastValidRow(rows) ==
    LET valid == {i \in 1..Len(rows) : CellText(rows[i], 0) # <<>>}
    IN  IF valid = {} THEN 0
        ELSE CHOOSE i \in valid : \A j \in valid : j <= i

\* the texts of the cells taken as they are, untrimmed
ExtractResult_Untrimmed(rows) ==
    LET row == rows[LastValidRow(rows)]
    IN  [semester |-> row[1],
         sgpa |-> IF Len(row) >= 2 THEN row[2] ELSE <<>>,
         cgpa |-> IF Len(row) >= 3 THEN row[3] ELSE <<>>]

\* route.ts:186-192, for a table that has a valid row
ExtractResult(rows) ==
    LET row == rows[LastValidRow(rows)]
    IN  [semester |-> CellText(row, 0),
         sgpa |-> CellText(row, 1),
         cgpa |-> CellText(row, 2)]

\* f with the field k set to v
WithField(f, k, v) ==
    [x \in DOMAIN f \cup {k} |-> IF x = k THEN v ELSE f[x]]

NotFoundMessage_NoHtno(htno) ==
    <<"Hall Ticket Number \"">> \o <<"\" is not found.">>

\* `Hall Ticket Number "${htno}" is not found.`
NotFoundMessage(htno) ==
    <<"Hall Ticket Number \"">> \o htno \o <<"\" is not found.">>

NotFoundRecord(htno) ==
    [status |-> "NOT_FOUND", message |-> NotFoundMessage(htno)]

\* a result for every result table, of empty texts when no row is valid
FoundRecord_EmptyResult(html) ==
    LET r0 == [status |-> "FOUND"]
        r1 == IF html.t3 # <<>>
              THEN WithField(r0, "personalDetails",
                             ExtractPersonalDetails(html.t3[1]))
              ELSE r0
        r2 == IF html.t4 # <<>>
              THEN WithField(r1, "marks", ExtractMarks(html.t4[1]))
              ELSE r1
        r3 == IF html.t5 # <<>>
              THEN WithField(r2, "result",
                             IF LastValidRow(html.t5[1]) # 0
                             THEN ExtractResult(html.t5[1])
                             ELSE [semester |-> <<>>, sgpa |-> <<>>,
                                   cgpa |-> <<>>])
              ELSE r2
    IN  r3

\* route.ts:120-193: the FOUND record, each field set when its table exists
FoundRecord(html) ==
    LET r0 == [status |-> "FOUND"]
        r1 == IF html.t3 # <<>>
              THEN WithField(r0, "personalDetails",
                             ExtractPersonalDetails(html.t3[1]))
              ELSE r0
        r2 == IF html.t4 # <<>>
              THEN WithField(r1, "marks", ExtractMarks(html.t4[1]))
              ELSE r1
        r3 == IF html.t5 # <<>> /\ LastValidRow(html.t5[1]) # 0
              THEN WithField(r2, "result", ExtractResult(html.t5[1]))
              ELSE r2
    IN  r3

ParsePage_TablesFirst(html, htno) ==
    IF html.t3 # <<>> \/ html.t4 # <<>> \/ html.t5 # <<>>
    THEN FoundRecord(html)
    ELSE IF notFoundText(html) # <<>> THEN NotFoundRecord(htno)
    ELSE FoundRecord(html)

\* route.ts:107-193: the record scraped from a document
ParsePage(html, htno) ==
    IF notFoundText(html) # <<>>
    THEN NotFoundRecord(htno)
    ELSE FoundRecord(html)

-----------------------------------------------------------------------------
(* The route handler POST of /api/results (route.ts).  It suspends at the  *)
(* outbound fetch and at response.text(); between them it runs to the end. *)

NoCall == [pc |-> "none"]

EnvUnset == "unset"

NoPage == Page(0, "none", <<>>, <<>>, <<>>)

Request(u, htno) == [url |-> u, htno |-> htno]

\* the form the handler posts to the origin (route.ts:71-73)
FormBody(htno) == <<"mbstatus=SEARCH", "&htno=">> \o htno

\* What the handler went through before it answered (history): the request,
\* the number of outbound requests it issued, the event that ended it
\* ("invalid", "abort", "transport", "status", "short", "parsed") and the
\* document it read, if it read one.
Trace(req, outbound, why, html) ==
    [req |-> req, outbound |-> outbound, why |-> why, html |-> html]

Response_Always200(status, body, trace) ==
    [status |-> 200, body |-> body, trace |-> trace]

Response(status, body, trace) ==
    [status |-> status, body |-> body, trace |-> trace]

\* response.ok
Ok(status) == status >= 200 /\ status <= 299

MsgRequired == <<"URL and hall ticket number are required">>

MsgTwelveDigits == <<"Hall ticket number must be exactly 12 digits">>

MsgInvalidUrl == <<"Invalid URL format">>

MsgTimeout == <<"Request timed out. Please try again later.">>

MsgNetwork == <<"Network error. Please check your connection and try again.">>

MsgUnable == <<"Unable to fetch results. Please try again later.">>

JsError(name, message) == [name |-> name, message |-> message]

\* what the outbound fetch throws when the timer aborts it
AbortError == JsError("AbortError", <<"This operation was aborted">>)

\* what the outbound fetch throws on a transport failure
FetchFailed == JsError("TypeError", <<"fetch failed">>)

\* route.ts:97
HttpError(status) ==
    JsError("Error", <<"HTTP error! status: ", ToString(status)>>)

\* route.ts:104
InvalidResponse ==
    JsError("Error", <<"Invalid response received from server">>)

Caught_AllGeneric(e, trace) == Response(500, [message |-> MsgUnable], trace)

\* the catch block (route.ts:200-219)
Caught(e, trace) ==
    IF e.name = "AbortError"
    THEN Response(408, [message |-> MsgTimeout], trace)
    ELSE IF Includes(e.message, "fetch failed") \/ Includes(e.message, "network")
    THEN Response(503, [message |-> MsgNetwork], trace)
    ELSE Response(500, [message |-> MsgUnable], trace)

Validate_UrlUnchecked(req) ==
    IF req.url = <<>> \/ req.htno = <<>> THEN MsgRequired
    ELSE IF ~validateRollNo(req.htno) THEN MsgTwelveDigits
    ELSE <<>>

\* the input validation (route.ts:45-69): the message of the 400 response,
\* <<>> when the request passes
Validate(req) ==
    IF req.url = <<>> \/ req.htno = <<>> THEN MsgRequired
    ELSE IF ~validateRollNo(req.htno) THEN MsgTwelveDigits
    ELSE IF ~IsValidUrl(req.url) THEN MsgInvalidUrl
    ELSE <<>>

\* return NextResponse.json(...): the handler ends
Respond(resp) ==
    /\ apiResp' = Append(apiResp, resp)
    /\ call' = NoCall

\* route.ts:38-92: the handler starts on a request, validates it and either
\* answers 400 or posts the form to the origin with the abort timer armed
RouteReceive ==
    /\ call = NoCall
    /\ apiReq # <<>>
    /\ LET req == Head(apiReq)
       IN  /\ apiReq' = Tail(apiReq)
           /\ env' = "0"
           /\ IF Validate(req) # <<>>
              THEN Respond(Response(400, [message |-> Validate(req)],
                                    Trace(req, 0, "invalid", NoPage)))
              ELSE /\ call' = [pc |-> "fetching", req |-> req, timer |-> TRUE,
                               target |-> req.url, form |-> FormBody(req.htno),
                               outbound |-> 1]
                   /\ apiResp' = apiResp
    /\ UNCHANGED <<clientVars, unitVars>>

\* the outbound fetch rejects: no connection to the origin
OriginUnreachable ==
    /\ call.pc = "fetching"
    /\ Respond(Caught(FetchFailed,
                      Trace(call.req, call.outbound, "transport", NoPage)))
    /\ UNCHANGED <<clientVars, apiReq, env, unitVars>>

\* route.ts:76-78: the timer fires while the outbound fetch is pending
TimerFires ==
    /\ call.pc = "fetching"
    /\ call.timer
    /\ Respond(Caught(AbortError,
                      Trace(call.req, call.outbound, "abort", NoPage)))
    /\ UNCHANGED <<clientVars, apiReq, env, unitVars>>

\* route.ts:94-98: the origin's status line and headers arrive
OriginHeaders(status) ==
    /\ call.pc = "fetching"
    /\ IF Ok(status)
       THEN /\ call' = [call EXCEPT !.pc = "body", !.timer = FALSE]
            /\ apiResp' = apiResp
       ELSE Respond(Caught(HttpError(status),
                           Trace(call.req, call.outbound, "status", NoPage)))
    /\ UNCHANGED <<clientVars, apiReq, env, unitVars>>

OriginBody_NotFound404(html) ==
    /\ call.pc = "body"
    /\ IF html.len < MinHtmlLen
       THEN Respond(Caught(InvalidResponse,
                           Trace(call.req, call.outbound, "short", html)))
       ELSE LET rec == ParsePage(html, call.req.htno)
                trace == Trace(call.req, call.outbound, "parsed", html)
            IN  IF rec.status = "NOT_FOUND"
                THEN Respond(Response(404, [data |-> rec], trace))
                ELSE Respond(Response(200, [data |-> rec, status |-> 200],
                                      trace))
    /\ UNCHANGED <<clientVars, apiReq, env, unitVars>>

\* the marks collected in an array that outlives the invocation
OriginBody_MarksKept(html) ==
    /\ call.pc = "body"
    /\ IF html.len < MinHtmlLen
       THEN Respond(Caught(InvalidResponse,
                           Trace(call.req, call.outbound, "short", html)))
       ELSE LET rec0 == ParsePage(html, call.req.htno)
                kept == IF /\ apiResp # <<>>
                           /\ apiResp[1].trace.why = "parsed"
                           /\ "marks" \in DOMAIN apiResp[1].body.data
                        THEN apiResp[1].body.data.marks
                        ELSE <<>>
                rec == IF "marks" \in DOMAIN rec0
                       THEN [rec0 EXCEPT !.marks = kept \o @]
                       ELSE rec0
                trace == Trace(call.req, call.outbound, "parsed", html)
            IN  IF rec.status = "NOT_FOUND"
                THEN Respond(Response(200, [data |-> rec], trace))
                ELSE Respond(Response(200, [data |-> rec, status |-> 200],
                                      trace))
    /\ UNCHANGED <<clientVars, apiReq, env, unitVars>>

\* the marker looked for before the length of the body is checked
OriginBody_MarkerFirst(html) ==
    /\ call.pc = "body"
    /\ IF notFoundText(html) # <<>>
       THEN Respond(Response(200, [data |-> NotFoundRecord(call.req.htno)],
                             Trace(call.req, call.outbound, "parsed", html)))
       ELSE IF html.len < MinHtmlLen
       THEN Respond(Caught(InvalidResponse,
                           Trace(call.req, call.outbound, "short", html)))
       ELSE Respond(Response(200, [data |-> FoundRecord(html),
                                   status |-> 200],
                             Trace(call.req, call.outbound, "parsed", html)))
    /\ UNCHANGED <<clientVars, apiReq, env, unitVars>>

\* route.ts:100-198: the body arrives, is checked and scraped
OriginBody(html) ==
    /\ call.pc = "body"
    /\ IF html.len < MinHtmlLen
       THEN Respond(Caught(InvalidResponse,
                           Trace(call.req, call.outbound, "short", html)))
       ELSE LET rec == ParsePage(html, call.req.htno)
                trace == Trace(call.req, call.outbound, "parsed", html)
            IN  IF rec.status = "NOT_FOUND"
                THEN Respond(Response(200, [data |-> rec], trace))
                ELSE Respond(Response(200, [data |-> rec, status |-> 200],
                                      trace))
    /\ UNCHANGED <<clientVars, apiReq, env, unitVars>>

-----------------------------------------------------------------------------
(* The client component StudentResults (student-results.tsx).              *)

NoError == <<>>

ErrRollNumbers == <<"Please enter valid 12-digit roll numbers.">>

ErrUrl == <<"Please enter the URL for fetching results.">>

\* the message naming the roll number after the one that failed
ErrFetch_NextRoll(rollNo) ==
    <<"Failed to fetch results for roll number ">>
        \o NumToString(Inc(rollNo)) \o <<". Please try again.">>

\* `Failed to fetch results for roll number ${rollNo}. Please try again.`
ErrFetch(rollNo) ==
    <<"Failed to fetch results for roll number ">> \o NumToString(rollNo)
        \o <<". Please try again.">>

NoRun == [start |-> NaN, end |-> NaN, rollNo |-> NaN, url |-> <<>>,
          urls |-> <<>>, idx |-> 0]

\* the number rendered without the padding
HtnoOf_NoPad(rollNo) == NumToString(rollNo)

\* rollNo.toString().padStart(12, '0')
HtnoOf(rollNo) == PadStart(NumToString(rollNo), RollLen)

\* student-results.tsx:68-72: the request for candidate i of the roll number
\* the closure is at; queue and log are the requests in flight and the log
Send(r, i, queue, log) ==
    /\ apiReq' = Append(queue, Request(r.urls[i], HtnoOf(r.rollNo)))
    /\ sent' = Append(log, [htno |-> HtnoOf(r.rollNo), url |-> r.urls[i],
                            outcome |-> "pending"])
    /\ run' = [r EXCEPT !.idx = i]
    /\ pc' = "await"

LoopTest_Exclusive(r, queue, log) ==
    IF Leq(Inc(r.rollNo), r.end)
    THEN /\ Send([r EXCEPT !.urls = CandidateUrls(normalizeUrl(r.url))],
                 1, queue, log)
         /\ loading' = TRUE
    ELSE /\ loading' = FALSE
         /\ run' = r
         /\ pc' = "idle"
         /\ apiReq' = queue
         /\ sent' = log

\* student-results.tsx:105-119: the loop test; the body up to its first
\* await (the request for the first candidate), or the end of the loop
LoopTest(r, queue, log) ==
    IF Leq(r.rollNo, r.end)
    THEN /\ Send([r EXCEPT !.urls = CandidateUrls(normalizeUrl(r.url))],
                 1, queue, log)
         /\ loading' = TRUE
    ELSE /\ loading' = FALSE
         /\ run' = r
         /\ pc' = "idle"
         /\ apiReq' = queue
         /\ sent' = log

\* the log with the outcome of its last request set
Settled(log, outcome) == [log EXCEPT ![Len(log)].outcome = outcome]

NextCandidate_SkipRoll(queue, log) ==
    IF run.idx < Len(run.urls)
    THEN /\ Send(run, run.idx + 1, queue, log)
         /\ UNCHANGED <<results, resultRolls, loading, error>>
    ELSE /\ LoopTest([run EXCEPT !.rollNo = Inc(run.rollNo)], queue, log)
         /\ UNCHANGED <<results, resultRolls, error>>

\* the loop left on a failure without the flag being cleared
NextCandidate_StaysLoading(queue, log) ==
    IF run.idx < Len(run.urls)
    THEN /\ Send(run, run.idx + 1, queue, log)
         /\ UNCHANGED <<results, resultRolls, loading, error>>
    ELSE /\ error' = ErrFetch(run.rollNo)
         /\ loading' = TRUE
         /\ pc' = "idle"
         /\ apiReq' = queue
         /\ sent' = log
         /\ UNCHANGED <<results, resultRolls, run>>

\* student-results.tsx:66-81 and 112-116: a candidate failed; the next one
\* is tried, or the call throws, the error is set and the loop is left
NextCandidate(queue, log) ==
    IF run.idx < Len(run.urls)
    THEN /\ Send(run, run.idx + 1, queue, log)
         /\ UNCHANGED <<results, resultRolls, loading, error>>
    ELSE /\ error' = ErrFetch(run.rollNo)
         /\ loading' = FALSE
         /\ pc' = "idle"
         /\ apiReq' = queue
         /\ sent' = log
         /\ UNCHANGED <<results, resultRolls, run>>

\* student-results.tsx:214, 227, 240: the user edits a field of the form.  The
\* model follows the edits made between range fetches: a running fetch
\* reads only the values its closure captured at the click
SetStartRollNo(v) ==
    /\ ~loading
    /\ startRollNo' = v
    /\ UNCHANGED <<endRollNo, url, results, loading, error, pc, run, sent,
                   resultRolls, apiReq, call, apiResp, env, unitVars>>

SetEndRollNo(v) ==
    /\ ~loading
    /\ endRollNo' = v
    /\ UNCHANGED <<startRollNo, url, results, loading, error, pc, run, sent,
                   resultRolls, apiReq, call, apiResp, env, unitVars>>

SetUrl(v) ==
    /\ ~loading
    /\ url' = v
    /\ UNCHANGED <<startRollNo, endRollNo, results, loading, error, pc, run,
                   sent, resultRolls, apiReq, call, apiResp, env, unitVars>>

\* start + MaxRange <= end: more roll numbers than the model follows
RangeTooLong(start, end) == Leq(IncN(start, MaxRange), end)

\* the list of the previous session kept when a new range fetch starts
fetchResults_NoReset ==
    /\ ~loading
    /\ IF ~validateRollNo(startRollNo) \/ ~validateRollNo(endRollNo)
       THEN /\ error' = ErrRollNumbers
            /\ UNCHANGED <<results, loading, pc, run, sent, resultRolls, apiReq>>
       ELSE IF url = <<>>
       THEN /\ error' = ErrUrl
            /\ UNCHANGED <<results, loading, pc, run, sent, resultRolls, apiReq>>
       ELSE LET start == ParseInt(startRollNo)
                end == ParseInt(endRollNo)
            IN  /\ ~RangeTooLong(start, end)
                /\ Len(results) < MaxRange
                /\ results' = results
                /\ resultRolls' = resultRolls
                /\ error' = NoError
                /\ LoopTest([NoRun EXCEPT !.start = start, !.end = end,
                                          !.rollNo = start, !.url = url],
                         apiReq, <<>>)
    /\ UNCHANGED <<startRollNo, endRollNo, url, call, apiResp, env, unitVars>>

\* the button left enabled while a range fetch runs
fetchResults_Reentrant ==
    /\ validateRollNo(startRollNo)
    /\ validateRollNo(endRollNo)
    /\ url # <<>>
    /\ ~RangeTooLong(ParseInt(startRollNo), ParseInt(endRollNo))
    /\ results' = <<>>
    /\ resultRolls' = <<>>
    /\ error' = NoError
    /\ LoopTest([NoRun EXCEPT !.start = ParseInt(startRollNo),
                              !.end = ParseInt(endRollNo),
                              !.rollNo = ParseInt(startRollNo), !.url = url],
                apiReq, <<>>)
    /\ UNCHANGED <<startRollNo, endRollNo, url, call, apiResp, env, unitVars>>

\* student-results.tsx:87-104 and the first pass of the loop: the button is
\* clicked (it is disabled while loading, line 248)
fetchResults ==
    /\ ~loading
    /\ IF ~validateRollNo(startRollNo) \/ ~validateRollNo(endRollNo)
       THEN /\ error' = ErrRollNumbers
            /\ UNCHANGED <<results, loading, pc, run, sent, resultRolls, apiReq>>
       ELSE IF url = <<>>
       THEN /\ error' = ErrUrl
            /\ UNCHANGED <<results, loading, pc, run, sent, resultRolls, apiReq>>
       ELSE LET start == ParseInt(startRollNo)
                end == ParseInt(endRollNo)
            IN  /\ ~RangeTooLong(start, end)
                /\ results' = <<>>
                /\ resultRolls' = <<>>
                /\ error' = NoError
                /\ LoopTest([NoRun EXCEPT !.start = start, !.end = end,
                                          !.rollNo = start, !.url = url],
                         apiReq, <<>>)
    /\ UNCHANGED <<startRollNo, endRollNo, url, call, apiResp, env, unitVars>>

\* student-results.tsx:74-76 and 111: the response to the pending request
ClientResponse ==
    /\ pc = "await"
    /\ apiResp # <<>>
    /\ apiResp' = Tail(apiResp)
    /\ LET response == Head(apiResp)
       IN  IF Ok(response.status)
           THEN /\ results' = Append(results, response.body.data)
                /\ resultRolls' = Append(resultRolls, run.rollNo)
                /\ error' = error
                /\ LoopTest([run EXCEPT !.rollNo = Inc(run.rollNo)],
                            apiReq, Settled(sent, "ok"))
           ELSE NextCandidate(apiReq, Settled(sent, "failed"))
    /\ UNCHANGED <<startRollNo, endRollNo, url, call, env, unitVars>>

\* student-results.tsx:77-79: the fetch of /api/results itself rejects
ClientFetchRejects ==
    /\ pc = "await"
    /\ apiReq # <<>>
    /\ NextCandidate(Tail(apiReq), Settled(sent, "failed"))
    /\ UNCHANGED <<startRollNo, endRollNo, url, call, apiResp, env, unitVars>>

-----------------------------------------------------------------------------
(* What the user types and what the origin answers.                        *)

R9 == Rep("0", 11) \o <<"9">>

R10 == Rep("0", 10) \o <<"1", "0">>

R11 == Rep("0", 10) \o <<"1", "1">>

RMax == Rep("9", 12)

R123 == <<"1", "2", "3", "4", "5", "6", "7", "8", "9", "0", "1", "2">>

\* the form starts empty; what the user then types into a roll-number field
RollInputs == {Rep("1", 11) \o <<"a">>, Rep("1", 13), R9, R10, R11, RMax}

\* what the user types into the URL field
UrlInputs ==
    {<<Https, "ou.in", "/res">>,
     <<Http, "ou.in", "/res">>,
     <<"ou.in", "/res">>}

\* the statuses the origin answers with
Statuses == {200, 404}

T3 == << <<<<"Hall Ticket No.">>, <<" ", "1234">>, <<"Gender">>, <<"M">>>>,
         <<<<"Name">>, <<"JOHN DOE", "Credits">>,
           <<"Father", "'s ", "Name">>, <<"SMITH", " ">>>>,
         <<<<"Course">>, <<"BE">>>> >>

T4 == << <<<<"Marks">>>>,
         <<<<"Code">>, <<"Subject">>, <<"Cr">>, <<"GP">>, <<"Gr">>>>,
         <<<<"101">>, <<"MATHS", " ">>, <<"4">>, <<"9">>, <<"A">>>>,
         <<<<"-">>>> >>

T5 == << <<<<"Sem">>, <<"SGPA">>, <<"CGPA">>>>,
         <<<<"1">>, <<"PASSED-8.50">>, <<"8.50">>>>,
         <<<<" ">>>> >>

T5Blank == << <<<<" ">>, <<"x">>>>, <<>> >>

\* the pages the origin serves in the range fetch
ClientPages ==
    {Page(5000, "font", <<T3>>, <<T4>>, <<T5>>),
     Page(5000, "none", <<T3>>, <<T4>>, <<T5>>),
     Page(99, "none", <<>>, <<>>, <<>>)}

\* the pages the origin serves to the route: every combination of the phrase
\* and the three tables, and pages too short to hold a table
RoutePages ==
    {Page(5000, p, t3, t4, t5) :
        p \in PhrasePlaces, t3 \in {<<>>, <<T3>>}, t4 \in {<<>>, <<T4>>},
        t5 \in {<<>>, <<T5>>, <<T5Blank>>}}
    \cup {Page(len, p, <<>>, <<>>, <<>>) : len \in {99, 100}, p \in PhrasePlaces}
    \cup {NoPage}

\* the requests a caller of the route sends
RouteRequests ==
    {Request(u, h) :
        u \in {<<>>, <<Https>>, <<"ou.in", "/res">>, <<Https, "ou.in", "/res">>},
        h \in {<<>>, Rep("1", 11), Rep("1", 11) \o <<"a">>, Rep("1", 13),
               R9, R123}}

\* no function is being called alone
NoInput == [fn |-> "none"]

NoOutput == [done |-> FALSE]

\* the component as mounted and the route idle
InitApp ==
    /\ startRollNo = <<>>
    /\ endRollNo = <<>>
    /\ url = <<>>
    /\ results = <<>>
    /\ loading = FALSE
    /\ error = NoError
    /\ pc = "idle"
    /\ run = NoRun
    /\ sent = <<>>
    /\ resultRolls = <<>>
    /\ apiReq = <<>>
    /\ call = NoCall
    /\ apiResp = <<>>
    /\ env = EnvUnset

Init ==
    /\ InitApp
    /\ input = NoInput
    /\ output = NoOutput

Next ==
    \/ \E v \in RollInputs : SetStartRollNo(v)
    \/ \E v \in RollInputs : SetEndRollNo(v)
    \/ \E v \in UrlInputs : SetUrl(v)
    \/ fetchResults
    \/ ClientResponse
    \/ ClientFetchRejects
    \/ RouteReceive
    \/ OriginUnreachable
    \/ TimerFires
    \/ \E status \in Statuses : OriginHeaders(status)
    \/ \E html \in ClientPages : OriginBody(html)

\* the range fetch: the client, the route and the origin
Spec == Init /\ [][Next]_vars

\* the range fetch when every request to /api/results resolves or rejects:
\* the route takes up a request that stays in flight, the timer fires when
\* the origin sends no headers, the body arrives once the headers have, and
\* the client's continuation runs when the response is there
SpecLive ==
    /\ Init
    /\ [][Next]_vars
    /\ WF_vars(RouteReceive)
    /\ WF_vars(TimerFires)
    /\ WF_vars(\E html \in ClientPages : OriginBody(html))
    /\ WF_vars(ClientResponse)

\* a caller other than the client posts a request to the route
DirectRequest(req) ==
    /\ pc = "idle"
    /\ apiReq = <<>>
    /\ call = NoCall
    /\ apiResp = <<>>
    /\ apiReq' = <<req>>
    /\ UNCHANGED <<clientVars, call, apiResp, env, unitVars>>

\* and takes the response
DirectResponse ==
    /\ pc = "idle"
    /\ apiResp # <<>>
    /\ apiResp' = Tail(apiResp)
    /\ UNCHANGED <<clientVars, apiReq, call, env, unitVars>>

NextRoute ==
    \/ \E req \in RouteRequests : DirectRequest(req)
    \/ DirectResponse
    \/ RouteReceive
    \/ OriginUnreachable
    \/ TimerFires
    \/ \E status \in Statuses : OriginHeaders(status)
    \/ \E html \in RoutePages : OriginBody(html)

\* the route alone, on any request and any page
SpecRoute == Init /\ [][NextRoute]_vars

\* the route with what its runtime guarantees: a request that arrived is
\* handled, and a timer that stays armed fires (after 20 s); the origin may
\* stall at any point, so none of its steps is guaranteed
SpecRouteLive ==
    /\ Init
    /\ [][NextRoute]_vars
    /\ WF_vars(RouteReceive)
    /\ WF_vars(TimerFires)

\* a second caller posts a request before the first response is taken
SecondRequest(req) ==
    /\ pc = "idle"
    /\ apiReq = <<>>
    /\ call = NoCall
    /\ Len(apiResp) = 1
    /\ apiReq' = <<req>>
    /\ UNCHANGED <<clientVars, call, apiResp, env, unitVars>>

NextRouteTwice ==
    \/ \E req \in RouteRequests : DirectRequest(req)
    \/ \E req \in RouteRequests : SecondRequest(req)
    \/ DirectResponse
    \/ RouteReceive
    \/ OriginUnreachable
    \/ TimerFires
    \/ \E status \in Statuses : OriginHeaders(status)
    \/ \E html \in RoutePages : OriginBody(html)

\* the route serving one request after another
SpecRouteTwice == Init /\ [][NextRouteTwice]_vars

-----------------------------------------------------------------------------
(* The functions of the route called alone, on any argument.               *)

\* the texts of at most n segments drawn from S
Texts(S, n) == UNION {[1..k -> S] : k \in 0..n}

\* the pieces the text of a name cell is made of
NameSegments == {"JOHN DOE", " ", Credits, "SMITH"}

\* the texts of the father's-name cell
FatherNames == {<<>>, <<"SMITH">>, <<"JOHN DOE">>}

Return(v) == [done |-> TRUE, value |-> v]

InitCleanName ==
    /\ InitApp
    /\ \E n \in Texts(NameSegments, MaxNameLen), f \in FatherNames :
           input = [fn |-> "cleanName", fullName |-> n, fatherName |-> f]
    /\ output = NoOutput

\* route.ts:144: cleanName(rawName, fatherName)
CallCleanName ==
    /\ input.fn = "cleanName"
    /\ ~output.done
    /\ output' = Return(cleanName(input.fullName, input.fatherName))
    /\ UNCHANGED <<clientVars, apiReq, call, apiResp, env, input>>

NextCleanName == CallCleanName

SpecCleanName == InitCleanName /\ [][NextCleanName]_vars

\* the rows of a marks table: two rows of five cells, a row of four cells
\* and a row of six
MarksRows ==
    {T4[3],
     <<<<" ", "102">>, <<"PHYSICS">>, <<"3">>, <<" ">>, <<>>>>,
     <<<<"103">>, <<"LAB">>, <<"2">>, <<"10">>>>,
     <<<<"104">>, <<"ART">>, <<"1">>, <<"7">>, <<"B">>, <<"x">>>>}

\* the rows of a result table: a row of results, a row whose first cell is
\* blank, a row without cells and a row of one cell
ResultRows ==
    {T5[2], <<<<" ">>, <<"x">>>>, <<>>, <<<<" ", "2">>>>}

\* the texts of the value cell of the father's name
FatherCells == {<<>>, <<"SMITH">>, <<" ", "SMITH", " ">>, <<"SMITH", Credits>>}

NameLabel == <<"Name">>

FatherLabel == <<"Father", "'s ", "Name">>

\* a personal-details table: a label cell and the value cell next to it for
\* each of the five fields, the name before or after the father's name
PersonalTable(n, f, fatherFirst) ==
    << <<<<"Hall Ticket No.">>, <<" ", "1234">>, <<"Gender">>, <<"M">>>>,
       IF fatherFirst
       THEN <<FatherLabel, f, NameLabel, n>>
       ELSE <<NameLabel, n, FatherLabel, f>>,
       <<<<"Course">>, <<"BE", " ">>>> >>

PersonalTables ==
    {PersonalTable(n, f, o) :
        n \in Texts(NameSegments, MaxNameLen), f \in FatherCells,
        o \in BOOLEAN}

\* the documents given to the extraction: one table of any rows
ExtractPages ==
    {Page(5000, "none", <<>>, <<rows>>, <<>>) :
        rows \in Texts(MarksRows, MaxRows)}
    \cup {Page(5000, "none", <<>>, <<>>, <<rows>>) :
        rows \in Texts(ResultRows, MaxRows)}
    \cup {Page(5000, "none", <<rows>>, <<>>, <<>>) : rows \in PersonalTables}

InitExtract ==
    /\ InitApp
    /\ \E html \in ExtractPages :
           input = [fn |-> "extract", html |-> html, htno |-> R123]
    /\ output = NoOutput

\* route.ts:107-193: load(html) and the queries on it
CallExtract ==
    /\ input.fn = "extract"
    /\ ~output.done
    /\ output' = Return(ParsePage(input.html, input.htno))
    /\ UNCHANGED <<clientVars, apiReq, call, apiResp, env, input>>

NextExtract == CallExtract

SpecExtract == InitExtract /\ [][NextExtract]_vars

-----------------------------------------------------------------------------
(* The exports of the component, on any result list.                       *)

\* result.personalDetails?.hallTicketNo and the like: the columns of the row
\* whose value is defined
ExcelRow(result) ==
    LET personal == IF "personalDetails" \in DOMAIN result
                    THEN {"Hall Ticket No", "Name", "Father's Name", "Gender",
                          "Course"}
                    ELSE {}
        res == IF "result" \in DOMAIN result THEN {"SGPA", "CGPA"} ELSE {}
    IN  [col \in personal \cup res |->
            CASE col = "Hall Ticket No" -> result.personalDetails.hallTicketNo
              [] col = "Name" -> result.personalDetails.name
              [] col = "Father's Name" -> result.personalDetails.fatherName
              [] col = "Gender" -> result.personalDetails.gender
              [] col = "Course" -> result.personalDetails.course
              [] col = "SGPA" -> result.result.sgpa
              [] col = "CGPA" -> result.result.cgpa]

\* XLSX.utils.json_to_sheet(results.map(...)): one row for each object
ExcelRows(list) == [i \in 1..Len(list) |-> ExcelRow(list[i])]

\* the records a range fetch leaves in the list
ExportRecords ==
    {ParsePage(html, R9) :
        html \in {Page(5000, "font", <<T3>>, <<T4>>, <<T5>>),
                  Page(5000, "none", <<T3>>, <<T4>>, <<T5>>),
                  Page(5000, "none", <<>>, <<T4>>, <<>>),
                  Page(5000, "none", <<T3>>, <<>>, <<T5Blank>>)}}

\* the component after a range fetch that left any list of records
InitExport ==
    /\ startRollNo = R9
    /\ endRollNo = R9
    /\ url = <<Https, "ou.in", "/res">>
    /\ results \in Texts(ExportRecords, MaxResults)
    /\ loading = FALSE
    /\ error = NoError
    /\ pc = "idle"
    /\ run = NoRun
    /\ sent = <<>>
    /\ resultRolls = <<>>
    /\ apiReq = <<>>
    /\ call = NoCall
    /\ apiResp = <<>>
    /\ env = EnvUnset
    /\ input = [fn |-> "downloadExcel"]
    /\ output = NoOutput

\* student-results.tsx:129-147: the Excel button, shown when the list is not
\* empty (line 286); output is the file saved
downloadExcel ==
    /\ input.fn = "downloadExcel"
    /\ results # <<>>
    /\ ~output.done
    /\ output' = Return([file |-> "student_results.xlsx",
                         rows |-> ExcelRows(results)])
    /\ UNCHANGED <<clientVars, apiReq, call, apiResp, env, input>>

NextExport == downloadExcel

SpecExport == InitExport /\ [][NextExport]_vars

-----------------------------------------------------------------------------
(* The claims.                                                             *)

\* the requests of the session that were answered with a record
OkRequests == SelectSeq(sent, LAMBDA q : q.outcome = "ok")

\* the range fetch has stopped on a roll number whose candidates all failed
HardFailed ==
    /\ pc = "idle"
    /\ sent # <<>>
    /\ sent[Len(sent)].outcome = "failed"

\* a validated range fetch has ended
RangeEnded == pc = "idle" /\ run # NoRun

\* C1: a range fetch appends the records in ascending roll-number order: at
\* every state the list holds the records of start, start+1, ..., start+k-1
\* (each the answer to the request for that roll number, zero-padded to 12
\* digits), and a range fetch with start <= end that ends without a hard
\* failure holds one record for every roll number up to end.
C1_AscendingRange ==
    /\ Len(results) = Len(resultRolls)
    /\ Len(results) = Len(OkRequests)
    /\ \A i \in 1..Len(results) :
        /\ resultRolls[i] = IncN(run.start, i - 1)
        /\ OkRequests[i].htno = PadStart(IncN(run.start, i - 1), 12)
        /\ results[i].status = "NOT_FOUND" =>
               SubSeq(results[i].message, 2, 13) = OkRequests[i].htno
    /\ (RangeEnded /\ ~HardFailed /\ Leq(run.start, run.end)) =>
           IncN(run.start, Len(results)) = Inc(run.end)

C1_Witness ==
    /\ RangeEnded
    /\ ~HardFailed
    /\ Len(results) = 2
    /\ run.start = <<"9">>
    /\ run.end = <<"1", "0">>
    /\ results[1].status = "NOT_FOUND"
    /\ results[2].status = "FOUND"

\* C2: when both candidates of a roll number r have failed the range fetch
\* stops: nothing is in flight and no request was issued for a roll number
\* above r, the records of the roll numbers below r stay in the list, and
\* the step that stops sets the error to the message that names r.
C2_StoppedAt ==
    HardFailed =>
        /\ ~loading
        /\ apiReq = <<>> /\ call = NoCall /\ apiResp = <<>>
        /\ Len(sent) >= 2
        /\ sent[Len(sent)].htno = PadStart(run.rollNo, 12)
        /\ sent[Len(sent) - 1].htno = PadStart(run.rollNo, 12)
        /\ sent[Len(sent) - 1].outcome = "failed"
        /\ \A i \in 1..Len(sent) : Leq(ParseInt(sent[i].htno), run.rollNo)
        /\ IncN(run.start, Len(results)) = run.rollNo
        /\ \A i \in 1..Len(results) : resultRolls[i] = IncN(run.start, i - 1)

C2_StopStep ==
    (pc = "await" /\ HardFailed') =>
        /\ results' = results
        /\ run'.rollNo = run.rollNo
        /\ error' = <<"Failed to fetch results for roll number ">>
                        \o run.rollNo \o <<". Please try again.">>

\* C2, as one formula: the stopped state at every state, the stopping step at
\* every step
C2_HardFailureStops == [](C2_StoppedAt) /\ [][C2_StopStep]_vars

C2_Witness ==
    /\ HardFailed
    /\ Len(results) = 1
    /\ run.rollNo = <<"1", "0">>
    /\ error = ErrFetch(<<"1", "0">>)

\* C3: NOT_FOUND is not a failure: the route answers a page that holds the
\* not-found marker with status 200 and a NOT_FOUND record; the client
\* appends that record, sets no error and goes on to the next roll number
\* of the range (or ends the range after the last one).
C3_RouteAnswersOk ==
    \A i \in 1..Len(apiResp) :
        LET resp == apiResp[i]
        IN  /\ (resp.trace.why = "parsed" /\ resp.trace.html.phrase = "font") =>
                   /\ resp.status = 200
                   /\ resp.body.data.status = "NOT_FOUND"
            /\ ("data" \in DOMAIN resp.body
                    /\ resp.body.data.status = "NOT_FOUND") => Ok(resp.status)

C3_ClientStep ==
    (/\ pc = "await"
     /\ apiResp # <<>>
     /\ apiResp' = Tail(apiResp)
     /\ Head(apiResp).trace.why = "parsed"
     /\ Head(apiResp).trace.html.phrase = "font") =>
        /\ results' = Append(results, Head(apiResp).body.data)
        /\ results'[Len(results')].status = "NOT_FOUND"
        /\ error' = NoError
        /\ IF Leq(Inc(run.rollNo), run.end)
           THEN /\ pc' = "await"
                /\ loading'
                /\ apiReq' # <<>>
                /\ apiReq'[Len(apiReq')].htno = PadStart(Inc(run.rollNo), 12)
           ELSE /\ pc' = "idle"
                /\ ~loading'
                /\ apiReq' = <<>>

\* C3, as one formula: the route's answer at every state, the client's step
\* at every step
C3_NotFoundContinues == [](C3_RouteAnswersOk) /\ [][C3_ClientStep]_vars

C3_Witness ==
    /\ pc = "await"
    /\ Len(results) = 1
    /\ results[1].status = "NOT_FOUND"
    /\ error = NoError
    /\ apiReq # <<>>
    /\ apiReq[1].htno = R10

\* the optional fields of a record that hold scraped data
DataFields == {"personalDetails", "marks", "result"}

\* the responses of the route that carry a record
HasRecord(resp) == "data" \in DOMAIN resp.body

\* C4: the absence check comes before all extraction: a document that holds
\* the not-found marker (and is long enough to be read) is answered with a
\* NOT_FOUND record without personalDetails, marks or result, whichever of
\* the three tables it also holds; and no NOT_FOUND record has such a field.
C4_AbsenceFirst ==
    \A i \in 1..Len(apiResp) :
        LET resp == apiResp[i]
        IN  /\ (resp.trace.why = "parsed" /\ resp.trace.html.phrase = "font") =>
                   /\ HasRecord(resp)
                   /\ resp.body.data.status = "NOT_FOUND"
            /\ (HasRecord(resp) /\ resp.body.data.status = "NOT_FOUND") =>
                   DOMAIN resp.body.data \cap DataFields = {}

C4_Witness ==
    /\ apiResp # <<>>
    /\ apiResp[1].trace.html = Page(5000, "font", <<T3>>, <<T4>>, <<T5>>)
    /\ apiResp[1].body.data.status = "NOT_FOUND"

\* C5: a NOT_FOUND record's message is exactly
\* Hall Ticket Number "<htno>" is not found. with the requested htno, and a
\* record has a message exactly when its status is NOT_FOUND.
C5_NotFoundMessage ==
    \A i \in 1..Len(apiResp) :
        LET resp == apiResp[i]
        IN  HasRecord(resp) =>
                /\ ("message" \in DOMAIN resp.body.data)
                       <=> (resp.body.data.status = "NOT_FOUND")
                /\ resp.body.data.status = "NOT_FOUND" =>
                       resp.body.data.message =
                           <<"Hall Ticket Number \"">> \o resp.trace.req.htno
                               \o <<"\" is not found.">>

C5_Witness ==
    /\ apiResp # <<>>
    /\ HasRecord(apiResp[1])
    /\ apiResp[1].trace.req.htno = R123
    /\ apiResp[1].body.data.status = "NOT_FOUND"
    /\ apiResp[1].body.data.message =
           <<"Hall Ticket Number \"", "1", "2", "3", "4", "5", "6", "7", "8",
             "9", "0", "1", "2", "\" is not found.">>

\* the requests the session has sent for the roll number of request i
SentFor(i) == {j \in 1..Len(sent) : sent[j].htno = sent[i].htno}

\* C6: the client tries an ordered list of exactly two candidate URLs for a
\* roll number: at most two requests per roll number, the second (to the
\* second candidate) only after the first (to the first candidate) failed,
\* none after a success, and when both failed the call for the roll number
\* has failed and the fetch has stopped.
C6_TwoCandidates ==
    /\ pc = "await" => Len(run.urls) = 2
    /\ \A i \in 1..Len(sent) :
        /\ Cardinality(SentFor(i)) <= 2
        /\ sent[i].outcome = "pending" => i = Len(sent) /\ pc = "await"
        /\ SentFor(i) \subseteq {i - 1, i, i + 1}
        /\ (i > 1 /\ sent[i - 1].htno = sent[i].htno) =>
               /\ sent[i - 1].outcome = "failed"
               /\ sent[i - 1].url = run.urls[1]
               /\ sent[i].url = run.urls[2]
        /\ (i = 1 \/ (i > 1 /\ sent[i - 1].htno # sent[i].htno)) =>
               sent[i].url = run.urls[1]
        /\ (i < Len(sent) /\ sent[i].outcome = "ok") =>
               sent[i + 1].htno # sent[i].htno
        /\ (i > 1 /\ sent[i - 1].htno = sent[i].htno
                /\ sent[i].outcome = "failed") =>
               /\ i = Len(sent)
               /\ HardFailed
               /\ apiReq = <<>>

C6_Witness ==
    /\ Len(sent) = 3
    /\ sent[1].outcome = "failed"
    /\ sent[2].outcome = "ok"
    /\ sent[2].htno = sent[1].htno
    /\ sent[3].outcome = "pending"
    /\ sent[1].url # sent[2].url

\* the URL with the "www." prefix of its host toggled: the segment after the
\* scheme is the start of the host
HostToggled(u) ==
    IF u[2] = Www
    THEN <<u[1]>> \o SubSeq(u, 3, Len(u))
    ELSE <<u[1], Www>> \o SubSeq(u, 2, Len(u))

\* C7: for every syntactically valid URL the user enters, the fallback
\* candidate is the first candidate with the "www." prefix of the host
\* toggled: the two differ, and only in that prefix (same scheme, same rest).
C7_FallbackTogglesHost ==
    (pc = "await" /\ IsValidUrl(run.url)) =>
        /\ run.urls[2] = HostToggled(run.urls[1])
        /\ run.urls[2] # run.urls[1]
        /\ run.urls[2][1] = run.urls[1][1]

\* exactly 12 ASCII digits
TwelveDigits(s) == Len(s) = 12 /\ \A i \in 1..Len(s) : s[i] \in DigitSet

\* the form does not pass validation
FormInvalid ==
    \/ ~TwelveDigits(startRollNo)
    \/ ~TwelveDigits(endRollNo)
    \/ url = <<>>
    \/ ~IsValidUrl(url)

\* C8: a click on a form that does not pass validation (a roll number that
\* is not 12 digits, a missing URL, a URL that is no valid URL) issues no
\* HTTP request, from the client or from the route, and shows a validation
\* error.
C8_ClickBlocked ==
    (~loading /\ FormInvalid /\ UNCHANGED <<startRollNo, endRollNo, url>>) =>
        /\ apiReq' = apiReq
        /\ sent' = sent
        /\ call' = call
        /\ pc' = "idle"
        /\ ~loading'
        /\ error' \in {ErrRollNumbers, ErrUrl}

\* C8, as a formula over every step
C8_ValidationBlocks == [][C8_ClickBlocked]_vars

\* the request is one the route must reject
InvalidRequest(req) ==
    \/ req.url = <<>>
    \/ req.htno = <<>>
    \/ ~TwelveDigits(req.htno)
    \/ ~IsValidUrl(req.url)

\* C9: the route answers a request with a missing url or htno, an htno that
\* is not exactly 12 digits or a url that does not parse with status 400 and
\* a message, never with a record, and without issuing the outbound request:
\* the form is built and the origin is called for valid requests only.
C9_InvalidInput ==
    /\ \A i \in 1..Len(apiResp) :
        LET resp == apiResp[i]
        IN  InvalidRequest(resp.trace.req) =>
                /\ resp.status = 400
                /\ ~HasRecord(resp)
                /\ "message" \in DOMAIN resp.body
                /\ resp.trace.outbound = 0
                /\ resp.trace.html = NoPage
    /\ call # NoCall => ~InvalidRequest(call.req)

C9_Witness ==
    /\ apiResp # <<>>
    /\ apiResp[1].trace.req = Request(<<"ou.in", "/res">>, R123)
    /\ apiResp[1].status = 400
    /\ apiResp[1].body.message = MsgInvalidUrl

C11_RecordIffParsed ==
    \A i \in 1..Len(apiResp) :
        LET resp == apiResp[i]
        IN  /\ resp.status = 200 <=> resp.trace.why = "parsed"
            /\ HasRecord(resp) <=> resp.trace.why = "parsed"
            /\ resp.status # 200 => ~HasRecord(resp)
            /\ HasRecord(resp) =>
                   /\ resp.status = 200
                   /\ resp.body.data.status \in {"FOUND", "NOT_FOUND"}

C11_Witness ==
    /\ apiResp # <<>>
    /\ apiResp[1].status = 200
    /\ HasRecord(apiResp[1])
    /\ apiResp[1].body.data.status = "FOUND"
    /\ apiResp[1].trace.html.t3 = <<>>
    /\ "marks" \in DOMAIN apiResp[1].body.data

\* C12: name cleanup is idempotent: cleaning the cleaned name again, with
\* the same father's name, gives the cleaned name.
C12_Idempotent ==
    (input.fn = "cleanName" /\ output.done) =>
        cleanName(output.value, input.fatherName) = output.value

\* the cleanup rule as the specification words it: every occurrence of the
\* noise token removed and the rest trimmed; then, when the father's name is
\* not empty and the text ends with it, that one trailing occurrence removed
\* and the rest trimmed again
ReferenceName(raw, father) ==
    LET noToken == Trim(SelectSeq(raw, LAMBDA x : x # "Credits"))
        n == Len(noToken) - Len(father)
    IN  IF /\ father # <<>>
           /\ n >= 0
           /\ \A k \in 1..Len(father) : noToken[n + k] = father[k]
        THEN Trim([k \in 1..n |-> noToken[k]])
        ELSE noToken

\* cleanName has returned for the name and the father's name
Cleaned(name, father) ==
    /\ input.fn = "cleanName"
    /\ output.done
    /\ input.fullName = name
    /\ input.fatherName = father

\* C13, as stated: cleanName equals the reference, and JOHN DOECreditsSMITH
\* with father SMITH gives JOHN DOE, which stripping the suffix before
\* removing the token would not give.
C13_AsStated ==
    (input.fn = "cleanName" /\ output.done) =>
        /\ output.value = ReferenceName(input.fullName, input.fatherName)
        /\ Cleaned(<<"JOHN DOE", "Credits", "SMITH">>, <<"SMITH">>) =>
               /\ output.value = <<"JOHN DOE">>
               /\ cleanName_SuffixFirst(input.fullName, input.fatherName)
                      # <<"JOHN DOE">>

\* C13, amended: cleanName equals the reference; JOHN DOECreditsSMITH with
\* father SMITH gives JOHN DOE (in either order of the two steps); the order
\* matters where the token follows the father's name: JOHN DOESMITHCredits
\* gives JOHN DOE, and stripping the suffix before removing the token would
\* give JOHN DOESMITH.
C13_MatchesReference ==
    (input.fn = "cleanName" /\ output.done) =>
        /\ output.value = ReferenceName(input.fullName, input.fatherName)
        /\ Cleaned(<<"JOHN DOE", "Credits", "SMITH">>, <<"SMITH">>) =>
               output.value = <<"JOHN DOE">>
        /\ Cleaned(<<"JOHN DOE", "SMITH", "Credits">>, <<"SMITH">>) =>
               /\ output.value = <<"JOHN DOE">>
               /\ cleanName_SuffixFirst(input.fullName, input.fatherName)
                      = <<"JOHN DOE", "SMITH">>

C13_Witness ==
    /\ Cleaned(<<"JOHN DOE", "SMITH", "Credits">>, <<"SMITH">>)
    /\ output.value = <<"JOHN DOE">>

\* the extraction has returned for a document that has a marks table
MarksDone ==
    /\ input.fn = "extract"
    /\ output.done
    /\ input.html.t4 # <<>>

\* C14: of the rows of the marks table, the first two are skipped whatever
\* they hold; every later row of exactly five cells gives one entry of marks,
\* its five fields the trimmed texts of the cells in order; a row of another
\* number of cells gives none.  So marks holds as many entries as there are
\* five-cell rows after the first two, in document order.
C14_Marks ==
    MarksDone =>
        LET rows == input.html.t4[1]
            later == [k \in 1..(IF Len(rows) > 2 THEN Len(rows) - 2 ELSE 0)
                          |-> rows[k + 2]]
            five == SelectSeq(later, LAMBDA row : Len(row) = 5)
            marks == output.value.marks
        IN  /\ Len(marks) = Len(five)
            /\ \A k \in 1..Len(five) :
                   /\ marks[k].subCode = Trim(five[k][1])
                   /\ marks[k].subjectName = Trim(five[k][2])
                   /\ marks[k].credits = Trim(five[k][3])
                   /\ marks[k].gradePoints = Trim(five[k][4])
                   /\ marks[k].gradeSecurity = Trim(five[k][5])
                   /\ DOMAIN marks[k] = {"subCode", "subjectName", "credits",
                                         "gradePoints", "gradeSecurity"}

C14_Witness ==
    /\ MarksDone
    /\ Len(input.html.t4[1]) = 5
    /\ Len(input.html.t4[1][1]) = 5
    /\ Len(input.html.t4[1][2]) = 5
    /\ Len(input.html.t4[1][3]) = 5
    /\ Len(input.html.t4[1][4]) = 4
    /\ Len(input.html.t4[1][5]) = 5
    /\ Len(output.value.marks) = 2
    /\ output.value.marks[1].subjectName = <<"MATHS">>
    /\ output.value.marks[2].subCode = <<"102">>

\* the extraction has returned for a document that has a result table
ResultDone ==
    /\ input.fn = "extract"
    /\ output.done
    /\ input.html.t5 # <<>>

\* the row has a first cell whose trimmed text is not empty
NonBlank(row) == row # <<>> /\ Trim(row[1]) # <<>>

\* C15: of the rows of the result table the one selected is the last whose
\* first cell is not blank, however many blank rows follow and non-blank
\* rows precede it; result holds the trimmed texts of its cells 0, 1 and 2
\* as semester, sgpa and cgpa; when no row has a non-blank first cell the
\* record has no result.
C15_ResultRow ==
    ResultDone =>
        LET rows == input.html.t5[1]
            valid == {i \in 1..Len(rows) : NonBlank(rows[i])}
        IN  IF valid = {}
            THEN "result" \notin DOMAIN output.value
            ELSE /\ "result" \in DOMAIN output.value
                 /\ \E i \in valid :
                        /\ \A j \in (i + 1)..Len(rows) : ~NonBlank(rows[j])
                        /\ output.value.result =
                               [semester |-> Trim(rows[i][1]),
                                sgpa |-> IF Len(rows[i]) >= 2
                                         THEN Trim(rows[i][2]) ELSE <<>>,
                                cgpa |-> IF Len(rows[i]) >= 3
                                         THEN Trim(rows[i][3]) ELSE <<>>]

C15_Witness ==
    /\ ResultDone
    /\ input.html.t5[1] =
           <<<<<<" ", "2">>>>, T5[2], <<>>, <<<<" ">>, <<"x">>>>, <<>>>>
    /\ output.value.result =
           [semester |-> <<"1">>, sgpa |-> <<"PASSED-8.50">>,
            cgpa |-> <<"8.50">>]

\* C16: a document without the not-found marker is answered 200 with a
\* FOUND record whichever of the three tables it holds: personalDetails is
\* present exactly when the personal-details table exists, marks exactly
\* when the marks table exists, result exactly when the result table exists
\* and has a row whose first cell is not blank.
C16_OptionalFields ==
    \A i \in 1..Len(apiResp) :
        LET resp == apiResp[i]
            html == resp.trace.html
        IN  (resp.trace.why = "parsed" /\ html.phrase # "font") =>
                /\ resp.status = 200
                /\ HasRecord(resp)
                /\ resp.body.data.status = "FOUND"
                /\ ("personalDetails" \in DOMAIN resp.body.data)
                       <=> (html.t3 # <<>>)
                /\ ("marks" \in DOMAIN resp.body.data) <=> (html.t4 # <<>>)
                /\ ("result" \in DOMAIN resp.body.data)
                       <=> /\ html.t5 # <<>>
                           /\ \E k \in 1..Len(html.t5[1]) :
                                  NonBlank(html.t5[1][k])

C16_Witness ==
    /\ apiResp # <<>>
    /\ apiResp[1].trace.html = Page(5000, "none", <<T3>>, <<>>, <<T5Blank>>)
    /\ apiResp[1].status = 200
    /\ DOMAIN apiResp[1].body.data = {"status", "personalDetails"}

C18_ShortBody ==
    \A i \in 1..Len(apiResp) :
        LET resp == apiResp[i]
        IN  resp.trace.why \in {"short", "parsed"} =>
                IF resp.trace.html.len < 100
                THEN /\ resp.status = 500
                     /\ ~HasRecord(resp)
                     /\ resp.body.message = MsgUnable
                ELSE HasRecord(resp)

C18_Witness ==
    /\ apiResp # <<>>
    /\ apiResp[1].trace.html = Page(99, "font", <<>>, <<>>, <<>>)
    /\ apiResp[1].status = 500
    /\ ~HasRecord(apiResp[1])

\* C19: handling a request leaves the process-wide state as it found it:
\* whenever no invocation of the handler is running, the process environment
\* (the TLS certificate-validation setting) has the value the process
\* started with, also after a request that validation rejected.
C19_NoSideEffect == call = NoCall => env = EnvUnset

\* the requests to /api/results that are sent and not yet answered to the
\* client: on the way, being handled, or answered and not yet taken
InFlight == Len(apiReq) + (IF call = NoCall THEN 0 ELSE 1) + Len(apiResp)

\* C20, in every state: at most one request is in flight, and one is exactly
\* while the range fetch awaits; only the last request of the session can be
\* pending, and the requests are sent in ascending order of roll number, so
\* the request for the next roll number is sent after those for the one
\* before have succeeded or failed; the fetch runs only while loading.
C20_OneInFlight ==
    /\ InFlight <= 1
    /\ InFlight = 1 <=> pc = "await"
    /\ pc = "await" <=> loading
    /\ \A i \in 1..Len(sent) : \A j \in (i + 1)..Len(sent) :
           /\ sent[i].outcome # "pending"
           /\ Leq(ParseInt(sent[i].htno), ParseInt(sent[j].htno))

\* C20, in every step: while loading is true no second range fetch starts
\* (the range of the running fetch stays, the session's log is not reset) and
\* the result list is only appended to, one record at a time.
C20_SingleWriter ==
    loading =>
        /\ run'.start = run.start
        /\ run'.end = run.end
        /\ Len(sent') >= Len(sent)
        /\ \/ results' = results
           \/ /\ Len(results') = Len(results) + 1
              /\ \A k \in 1..Len(results) : results'[k] = results[k]

\* C20: fetching is strictly sequential and the result list has one writer.
C20_Sequential == [](C20_OneInFlight) /\ [][C20_SingleWriter]_vars

C20_Witness ==
    /\ loading
    /\ Len(sent) = 2
    /\ sent[1].htno = R9
    /\ sent[1].outcome = "ok"
    /\ sent[2].htno = R10
    /\ sent[2].outcome = "pending"
    /\ call # NoCall
    /\ Len(results) = 1
    /\ InFlight = 1

\* C21: the spreadsheet export writes exactly one row for each FOUND record
\* of the result list, in list order: as many rows as records with status
\* FOUND, and no row for a NOT_FOUND record.
C21_RowPerFound ==
    (input.fn = "downloadExcel" /\ output.done) =>
        LET found == SelectSeq(results, LAMBDA rec : rec.status = "FOUND")
        IN  /\ Len(output.value.rows) = Len(found)
            /\ \A k \in 1..Len(found) :
                   output.value.rows[k] = ExcelRow(found[k])

\* the client takes a response of one of the statuses
Takes(statuses) ==
    /\ pc = "await"
    /\ apiResp # <<>>
    /\ apiResp[1].status \in statuses
    /\ apiResp' = Tail(apiResp)

\* the step sends no request for the roll number of the pending request
NoRetry ==
    /\ Len(sent') = Len(sent)
    /\ apiReq' = apiReq

\* C22, in every step: when the client takes a 400 (invalid input) or a 500
\* (parse error) for a roll number, it sends no further request for that
\* roll number.
C22_Surfaced == Takes({400, 500}) => NoRetry

\* C22: the error kinds that are not retryable are surfaced without a retry.
C22_NoRetryOnError == [][C22_Surfaced]_vars

\* C23, in every step: when the client takes a 408 (the outbound call for the
\* roll number timed out), it sends no further request for that roll number
\* and reports the failure of that roll number to the user.
C23_Abandoned ==
    Takes({408}) =>
        /\ NoRetry
        /\ error' = ErrFetch(run.rollNo)
        /\ ~loading'

\* C23: a timed-out call is abandoned and reported, not silently retried.
C23_TimeoutReported == [][C23_Abandoned]_vars

\* C24: the outbound call is bounded by the timer over the whole exchange
\* with the origin, before the headers and while the body is read: every
\* invocation of the route handler eventually returns a response.
C24_AlwaysReturns == (call # NoCall) ~> (call = NoCall)

\* a number of at most 12 digits written with 12 digits
Pad12(n) ==
    [k \in 1..12 |-> IF k <= 12 - Len(n) THEN "0" ELSE n[k - (12 - Len(n))]]

\* a <= b as integers, for two texts of 12 digits
Leq12(a, b) ==
    \/ a = b
    \/ \E k \in 1..12 :
          /\ \A j \in 1..(k - 1) : a[j] = b[j]
          /\ DigitVal(a[k]) < DigitVal(b[k])

\* b = a + 1 as integers, for two texts of 12 digits
Succ12(a, b) ==
    \E k \in 1..12 :
        /\ \A j \in 1..(k - 1) : a[j] = b[j]
        /\ DigitVal(b[k]) = DigitVal(a[k]) + 1
        /\ \A j \in (k + 1)..12 : a[j] = "9" /\ b[j] = "0"

\* C25: every htno the client sends in a range fetch is exactly 12 digits and
\* renders, zero-padded, an integer between startRoll and endRoll; the first
\* request is for startRoll, and each later request is for the same roll
\* number as the one before (whose request failed) or for the next integer
\* (after a success): ascending, none skipped.  Holds for roll numbers with
\* leading zeros and for endRoll = 999999999999.
C25_HtnoRendering ==
    \A i \in 1..Len(sent) :
        /\ TwelveDigits(sent[i].htno)
        /\ Leq12(Pad12(run.start), sent[i].htno)
        /\ Leq12(sent[i].htno, Pad12(run.end))
        /\ i = 1 => sent[i].htno = Pad12(run.start)
        /\ i > 1 =>
               \/ /\ sent[i].htno = sent[i - 1].htno
                  /\ sent[i - 1].outcome = "failed"
               \/ /\ Succ12(sent[i - 1].htno, sent[i].htno)
                  /\ sent[i - 1].outcome = "ok"

C25_Witness ==
    /\ Len(sent) = 1
    /\ sent[1].htno = RMax
    /\ sent[1].outcome = "ok"
    /\ run.start = RMax
    /\ run.end = RMax
    /\ pc = "idle"
    /\ Len(results) = 1

\* the extraction has returned for a document that has a personal table
PersonalDone ==
    /\ input.fn = "extract"
    /\ output.done
    /\ input.html.t3 # <<>>

\* the text of the cell next to the cell that is the label
ValueOf(rows, label) ==
    LET at == CHOOSE p \in {<<i, k>> \in (1..Len(rows)) \X (1..4) :
                               k < Len(rows[i]) /\ rows[i][k] = label} : TRUE
    IN  rows[at[1]][at[2] + 1]

\* C26: for a personal-details table with one label cell and one value cell
\* next to it for each of the five fields, each extracted field is the
\* trimmed text of the value cell next to its own label cell; name is the
\* value of the Name row for every name and every father's name.
C26_OwnValueCell ==
    PersonalDone =>
        LET rows == input.html.t3[1]
            details == output.value.personalDetails
        IN  /\ details.hallTicketNo = Trim(ValueOf(rows, <<"Hall Ticket No.">>))
            /\ details.gender = Trim(ValueOf(rows, <<"Gender">>))
            /\ details.course = Trim(ValueOf(rows, <<"Course">>))
            /\ details.fatherName = Trim(ValueOf(rows, FatherLabel))
            /\ details.name = Trim(ValueOf(rows, NameLabel))

\* the roll number after the last one whose record is in the list
NextRoll == IncN(run.start, Len(results))

\* C27: when a range fetch that passed validation has ended, either the
\* error is null and the list holds max(0, endRoll - startRoll + 1) records
\* (none, and no request sent, for a reversed range), or the error is set and
\* names the roll number startRoll + (number of records), which is at most
\* endRoll; and the list never holds more records than the range has roll
\* numbers.  (A later click that validation rejects replaces the error; the
\* outcome is read before that.)
C27_EndOutcome ==
    /\ (RangeEnded /\ error \notin {ErrRollNumbers, ErrUrl}) =>
           IF error = <<>>
           THEN IF Leq(run.start, run.end)
                THEN NextRoll = Inc(run.end)
                ELSE results = <<>> /\ sent = <<>>
           ELSE /\ error = <<"Failed to fetch results for roll number ">>
                               \o NextRoll \o <<". Please try again.">>
                /\ Leq(NextRoll, run.end)
    /\ run # NoRun =>
           IF Leq(run.start, run.end)
           THEN Leq(NextRoll, Inc(run.end))
           ELSE results = <<>>

C27_Witness ==
    /\ RangeEnded
    /\ run.start = <<"1", "0">>
    /\ run.end = <<"9">>
    /\ results = <<>>
    /\ sent = <<>>
    /\ error = <<>>
    /\ ~loading

\* C28, in every step: a click that validation rejects (a roll number that
\* is not 12 digits, no URL) does not set loading.
C28_RejectedStep ==
    (/\ ~loading
     /\ ~TwelveDigits(startRollNo) \/ ~TwelveDigits(endRollNo) \/ url = <<>>
     /\ UNCHANGED <<startRollNo, endRollNo, url>>) => ~loading'

\* C28: loading is true exactly while a validated range fetch is in progress
\* (it awaits a response), a rejected validation never sets it, and, when
\* every request to /api/results resolves or rejects, every range fetch ends
\* with loading false: all fetched, halted on a failure, or empty range.
C28_LoadingEnds ==
    /\ [](loading <=> pc = "await")
    /\ [][C28_RejectedStep]_vars
    /\ (loading ~> (~loading /\ pc = "idle" /\ InFlight = 0))

C28_Witness ==
    /\ RangeEnded
    /\ HardFailed
    /\ ~loading
    /\ Len(results) = 1
    /\ Len(sent) = 3
    /\ error # <<>>

\* the click is one the validation of fetchResults rejects
Rejected ==
    ~TwelveDigits(startRollNo) \/ ~TwelveDigits(endRollNo) \/ url = <<>>

\* a step taken from the idle form that leaves its fields: a click on Fetch
Click == ~loading /\ UNCHANGED <<startRollNo, endRollNo, url>>

\* C29, in every step: a click that validation rejects changes only the
\* error: the list and the loading flag stay, nothing is sent; a click that
\* passes validation leaves an empty list and a null error when its first
\* request goes out.
C29_ClickStep ==
    /\ (Click /\ Rejected) =>
           /\ results' = results
           /\ loading' = loading
           /\ error' \in {ErrRollNumbers, ErrUrl}
           /\ UNCHANGED <<pc, run, sent, apiReq, call, apiResp>>
    /\ (Click /\ ~Rejected) =>
           /\ results' = <<>>
           /\ error' = <<>>
           /\ Len(sent') <= 1
           /\ Len(apiReq') = Len(sent')

\* C29, in every state: the list holds records of the running session only:
\* no more records than requests of the session, and a NOT_FOUND record at
\* position i names the i-th roll number of the session's range.
C29_OneSession ==
    /\ Len(results) <= Len(sent)
    /\ \A i \in 1..Len(results) :
           results[i].status = "NOT_FOUND" =>
               results[i].message =
                   <<"Hall Ticket Number \"">>
                       \o Pad12(IncN(run.start, i - 1))
                       \o <<"\" is not found.">>

\* C29: a rejected range fetch changes only the error; a validated one
\* resets list and error, so records of two sessions are never mixed.
C29_SessionFrame == [](C29_OneSession) /\ [][C29_ClickStep]_vars

C29_Witness ==
    /\ ~loading
    /\ error = ErrRollNumbers
    /\ Len(results) = 2
    /\ ~TwelveDigits(startRollNo)

\* C30: whenever a FOUND record has a result, result.semester is not empty
\* and has no whitespace at its start or its end; sgpa and cgpa may be empty.
C30_SemesterNonEmpty ==
    (/\ input.fn = "extract"
     /\ output.done
     /\ output.value.status = "FOUND"
     /\ "result" \in DOMAIN output.value) =>
        LET semester == output.value.result.semester
        IN  /\ semester # <<>>
            /\ semester[1] # " "
            /\ semester[Len(semester)] # " "
            /\ DOMAIN output.value.result = {"semester", "sgpa", "cgpa"}

C30_Witness ==
    /\ ResultDone
    /\ "result" \in DOMAIN output.value
    /\ output.value.result.semester = <<"2">>
    /\ output.value.result.sgpa = <<>>
    /\ output.value.result.cgpa = <<>>

====
